---- MODULE Spec2Model ----
(***************************************************************************)
(* A model of python3-sys/build.rs: the build script that reads the        *)
(* requested Python version from the environment, locates a matching       *)
(* interpreter, and prints cargo directives for linking and for            *)
(* conditional compilation.                                                *)
(*                                                                         *)
(* Text is modelled at two levels.  Environment variable names are         *)
(* sequences of byte values, because version_from_env orders them by       *)
(* byte-wise string comparison and scans them with a regular expression.   *)
(* Everything else (script output lines, directive lines) is a TLA+        *)
(* string, built with \o the way format! builds it.                        *)
(***************************************************************************)
EXTENDS Integers, Sequences, FiniteSets, TLC

VARIABLES
    host,              \* the machine the script runs on: environment, target, interpreters
    pc,                \* position in main
    expected_version,  \* the PythonVersion returned by version_from_env
    spawned,           \* every subprocess invocation so far, in order
    caller,            \* who called find_interpreter_and_get_config
    next_name,         \* index of the next entry of possible_names to probe
    found,             \* what find_interpreter_and_get_config returned
    link_mode,         \* the link-mode booleans read by configure_from_path
    stdout,            \* the lines printed so far
    config_map,        \* main's config_map
    failure            \* why the process aborted, if it did

vars ==
    <<host, pc, expected_version, spawned, caller, next_name, found,
      link_mode, stdout, config_map, failure>>

-----------------------------------------------------------------------------
(* Bounds of the model.                                                    *)

\* iteration orders of the HashMap tried: rotations 0..MaxRot of the insertion order
MaxRot == 1

\* script outputs are tried with 0..MaxLines printed lines
MaxLines == 7

-----------------------------------------------------------------------------
(* Option<u8>::None for PythonVersion.minor.                               *)

NoMinor == -1

U8 == 256

PythonVersion(major, minor) == [major |-> major, minor |-> minor]

-----------------------------------------------------------------------------
(* Environment variable names, as byte sequences.                          *)

\* "CARGO_FEATURE_PYTHON_"
K_CARGO_FEATURE_PYTHON ==
    <<67,65,82,71,79,95,70,69,65,84,85,82,69,95,80,89,84,72,79,78,95>>
\* "CARGO_FEATURE_EXTENSION_MODULE"
K_CARGO_FEATURE_EXTENSION_MODULE ==
    <<67,65,82,71,79,95,70,69,65,84,85,82,69,95,69,88,84,69,78,83,73,79,78,95,77,79,68,85,76,69>>
\* "CARGO_FEATURE_LINK_MODE_DEFAULT"
K_CARGO_FEATURE_LINK_MODE_DEFAULT ==
    <<67,65,82,71,79,95,70,69,65,84,85,82,69,95,76,73,78,75,95,77,79,68,69,95,68,69,70,65,85,76,84>>
\* "CARGO_FEATURE_LINK_MODE_UNRESOLVED_STATIC"
K_CARGO_FEATURE_LINK_MODE_UNRESOLVED_STATIC ==
    <<67,65,82,71,79,95,70,69,65,84,85,82,69,95,76,73,78,75,95,77,79,68,69,95,85,78,82,69,83,79,76,86,69,68,95,83,84,65,84,73,67>>
\* "CARGO_FEATURE_PEP_384"
K_CARGO_FEATURE_PEP_384 ==
    <<67,65,82,71,79,95,70,69,65,84,85,82,69,95,80,69,80,95,51,56,52>>
\* "PYTHON_SYS_EXECUTABLE"
K_PYTHON_SYS_EXECUTABLE ==
    <<80,89,84,72,79,78,95,83,89,83,95,69,88,69,67,85,84,65,66,76,69>>
\* "PATH"
K_PATH ==
    <<80,65,84,72>>

IsDigit(c) == c >= 48 /\ c <= 57

\* the decimal digits of n, as bytes
RECURSIVE Digits(_)
Digits(n) == IF n < 10 THEN <<48 + n>> ELSE Digits(n \div 10) \o <<48 + (n % 10)>>

\* the name of the cargo feature variable for python-<major> or python-<major>-<minor>
FeatureKey(major, minor) ==
    K_CARGO_FEATURE_PYTHON \o Digits(major)
        \o (IF minor = NoMinor THEN <<>> ELSE <<95>> \o Digits(minor))

\* env::var_os(key).is_some()
var_os_is_some(key) == key \in DOMAIN host.env

-----------------------------------------------------------------------------
(* version_from_env                                                        *)

\* String's Ord: byte-wise lexicographic order, a proper prefix being smaller
StrLess(a, b) ==
    \E i \in 1..Len(b) :
        /\ \A j \in 1..(i - 1) : j <= Len(a) /\ a[j] = b[j]
        /\ (i > Len(a) \/ a[i] < b[i])

\* vars.sort_by(|a, b| b.cmp(a)): descending; names are unique, so the
\* values never decide
RECURSIVE SortDescending(_)
SortDescending(keys) ==
    IF keys = {} THEN <<>>
    ELSE LET top == CHOOSE k \in keys : \A o \in keys \ {k} : StrLess(o, k)
         IN  <<top>> \o SortDescending(keys \ {top})

\* the longest run of digits of s that starts at position i
RECURSIVE DigitRun(_, _)
DigitRun(s, i) ==
    IF i <= Len(s) /\ IsDigit(s[i]) THEN <<s[i]>> \o DigitRun(s, i + 1) ELSE <<>>

\* Regex CARGO_FEATURE_PYTHON_(\d+)(_(\d+))? : the leftmost match anywhere
\* in the name, each \d+ greedy.  matched = FALSE is captures() = None.
re_captures(key) ==
    LET n      == Len(K_CARGO_FEATURE_PYTHON)
        starts == {i \in 1..Len(key) :
                      /\ i + n <= Len(key)
                      /\ SubSeq(key, i, i + n - 1) = K_CARGO_FEATURE_PYTHON
                      /\ IsDigit(key[i + n])}
    IN  IF starts = {} THEN [matched |-> FALSE, g1 |-> <<>>, g3 |-> <<>>]
        ELSE LET i  == CHOOSE s \in starts : \A t \in starts : s <= t
                 g1 == DigitRun(key, i + n)
                 u  == i + n + Len(g1)
                 g3 == IF u <= Len(key) /\ key[u] = 95
                       THEN DigitRun(key, u + 1) ELSE <<>>
             IN  [matched |-> TRUE, g1 |-> g1, g3 |-> g3]

\* the number written by a run of digits
RECURSIVE DigitsValue(_)
DigitsValue(ds) ==
    IF ds = <<>> THEN 0
    ELSE 10 * DigitsValue(SubSeq(ds, 1, Len(ds) - 1)) + (ds[Len(ds)] - 48)

\* str::parse::<u8>: "Ok" with the value, or "Err" when it does not fit
parse_u8(ds) ==
    IF DigitsValue(ds) < U8
    THEN [tag |-> "Ok", value |-> DigitsValue(ds)]
    ELSE [tag |-> "Err", value |-> 0]

\* the first element of the sorted names the regex matches
RECURSIVE FirstMatch(_)
FirstMatch(keys) ==
    IF keys = <<>> THEN [matched |-> FALSE, g1 |-> <<>>, g3 |-> <<>>]
    ELSE IF re_captures(Head(keys)).matched THEN re_captures(Head(keys))
    ELSE FirstMatch(Tail(keys))

version_from_env ==
    LET cap == FirstMatch(SortDescending(DOMAIN host.env))
    IN  IF ~cap.matched
        THEN [tag |-> "Err",
              msg |-> "Python version feature was not found. At least one python version feature must be enabled."]
        ELSE IF parse_u8(cap.g1).tag = "Err"
                \/ (cap.g3 # <<>> /\ parse_u8(cap.g3).tag = "Err")
        THEN [tag |-> "Panic", msg |-> "called Result::unwrap() on an Err value: ParseIntError"]
        ELSE [tag |-> "Ok",
              version |-> PythonVersion(parse_u8(cap.g1).value,
                              IF cap.g3 = <<>> THEN NoMinor ELSE parse_u8(cap.g3).value)]

-----------------------------------------------------------------------------
(* PythonVersion                                                           *)

\* impl fmt::Display for PythonVersion
Display(v) ==
    ToString(v.major) \o "." \o (IF v.minor = NoMinor THEN "*" ELSE ToString(v.minor))

\* the text print(sys.version_info[0:2]) writes
VersionText(major, minor) == "(" \o ToString(major) \o ", " \o ToString(minor) \o ")"

matching_version_swapped(expected, actual) ==
    /\ actual.major = expected.major
    /\ (actual.minor = NoMinor \/ actual.minor = expected.minor)

matching_version(expected, actual) ==
    /\ actual.major = expected.major
    /\ (expected.minor = NoMinor \/ actual.minor = expected.minor)

-----------------------------------------------------------------------------
(* Running the interpreter.                                                *)
(*                                                                         *)
(* host.interp maps the program names and paths that can be executed to    *)
(* what each does with each of the three scripts: status is "ok" (exit     *)
(* status 0), "failed" (nonzero exit status) or "not_utf8" (exit status 0, *)
(* output that is not UTF-8), and out is the sequence of lines it printed, *)
(* each ended by NEWLINE_SEQUENCE.  A name outside the domain cannot be    *)
(* spawned.                                                                *)

IdentityScript == "identity"
LinkModelScript == "linkmodel"
SysconfigScript == "sysconfig"

Spawn(interpreter, script) == [interpreter |-> interpreter, script |-> script]

\* Command::output() and the checks on it: shared by run_python_script and
\* get_config_vars
run_command(interpreter, script) ==
    IF interpreter \notin DOMAIN host.interp
    THEN [tag |-> "Err", msg |-> "failed to run python interpreter"]
    ELSE LET p == host.interp[interpreter][script]
         IN  CASE p.status = "failed" ->
                    [tag |-> "Err", msg |-> "python script failed with stderr:"]
               [] p.status = "not_utf8" ->
                    [tag |-> "Panic", msg |-> "called Result::unwrap() on an Err value: FromUtf8Error"]
               [] OTHER -> [tag |-> "Ok", out |-> p.out]

run_python_script(interpreter, script) == run_command(interpreter, script)

\* out.split(NEWLINE_SEQUENCE): every printed line ends with the separator,
\* so the split yields the lines and then one empty string
Split(out) == out \o <<"">>

\* out.trim_end().split(NEWLINE_SEQUENCE): trailing empty lines go with the
\* trailing whitespace; the split of what is left never yields less than
\* one string
RECURSIVE TrimEnd(_)
TrimEnd(out) ==
    IF out # <<>> /\ out[Len(out)] = "" THEN TrimEnd(SubSeq(out, 1, Len(out) - 1))
    ELSE out

TrimEndSplit(out) == IF TrimEnd(out) = <<>> THEN <<"">> ELSE TrimEnd(out)

\* the version reports the model can tell apart from other text
ReportedVersions ==
    {<<3, 0>>, <<3, 3>>, <<3, 4>>, <<3, 5>>, <<3, 8>>, <<3, 9>>,
     <<3, 254>>, <<3, 255>>, <<3, 256>>, <<2, 7>>}

\* Regex \((\d+), (\d+)\) on the line, then parse::<u8>().unwrap() on both groups
get_interpreter_version(line) ==
    IF \E r \in ReportedVersions : line = VersionText(r[1], r[2])
    THEN LET r == CHOOSE q \in ReportedVersions : line = VersionText(q[1], q[2])
         IN  IF r[1] < U8 /\ r[2] < U8
             THEN [tag |-> "Ok", version |-> PythonVersion(r[1], r[2])]
             ELSE [tag |-> "Panic", msg |-> "called Result::unwrap() on an Err value: ParseIntError"]
    ELSE [tag |-> "Err", msg |-> "Unexpected response to version query " \o line]

get_config_from_interpreter(interpreter) ==
    LET r == run_python_script(interpreter, IdentityScript)
    IN  IF r.tag # "Ok" THEN r
        ELSE LET lines == Split(r.out)
             IN  IF Len(lines) < 2
                 THEN [tag |-> "Panic", msg |-> "removal index (is 0) should be < len (is 0)"]
                 ELSE LET v == get_interpreter_version(lines[2])
                      IN  IF v.tag # "Ok" THEN v
                          ELSE [tag |-> "Ok",
                                executable |-> lines[1],
                                version |-> v.version,
                                lines |-> SubSeq(lines, 3, Len(lines))]

-----------------------------------------------------------------------------
(* find_interpreter_and_get_config                                         *)

possible_names_minor_first(expected) ==
    (IF expected.minor # NoMinor
     THEN <<"python" \o ToString(expected.major) \o "." \o ToString(expected.minor)>>
     ELSE <<>>)
    \o <<"python", "python" \o ToString(expected.major)>>

possible_names(expected) ==
    <<"python", "python" \o ToString(expected.major)>>
    \o (IF expected.minor # NoMinor
        THEN <<"python" \o ToString(expected.major) \o "." \o ToString(expected.minor)>>
        ELSE <<>>)

NotCalled == [tag |-> "None"]

OkFound(c) ==
    [tag |-> "Ok", version |-> c.version, executable |-> c.executable, lines |-> c.lines]

\* the process ends: main unwraps every Result, so an Err that reaches it
\* aborts the build like a panic does, but with the error's own message
\* (at is the step that was running: the nested search of the macos link
\* plan counts as the link plan)
Abort(kind, msg) ==
    /\ pc' = "failed"
    /\ failure' = [kind |-> kind, msg |-> msg,
                   at |-> IF pc = "find" /\ caller = "get_macos_linkmodel"
                          THEN "linkmodel" ELSE pc]

\* find_interpreter_and_get_config returns r to its caller
Return(r) ==
    IF r.tag = "Ok"
    THEN /\ found' = [found EXCEPT ![caller] = r]
         /\ pc' = IF caller = "configure_from_path" THEN "configure" ELSE "linkmodel"
         /\ UNCHANGED failure
    ELSE /\ Abort(r.tag, r.msg)
         /\ UNCHANGED found

\* the PYTHON_SYS_EXECUTABLE branch
ProbeOverride ==
    /\ pc = "find"
    /\ var_os_is_some(K_PYTHON_SYS_EXECUTABLE)
    /\ LET interpreter_path == host.env[K_PYTHON_SYS_EXECUTABLE]
           c == get_config_from_interpreter(interpreter_path)
       IN  /\ spawned' = Append(spawned, Spawn(interpreter_path, IdentityScript))
           /\ IF c.tag # "Ok" THEN Return(c)
              ELSE IF matching_version(expected_version, c.version) THEN Return(OkFound(c))
              ELSE Return([tag |-> "Err",
                           msg |-> "Wrong python version in PYTHON_SYS_EXECUTABLE="
                                   \o c.executable \o "\n\texpected "
                                   \o Display(expected_version) \o " != found "
                                   \o Display(c.version)])
    /\ UNCHANGED <<host, expected_version, caller, next_name, link_mode, stdout, config_map>>

\* one turn of the loop over possible_names
ProbeCandidate ==
    /\ pc = "find"
    /\ ~var_os_is_some(K_PYTHON_SYS_EXECUTABLE)
    /\ next_name <= Len(possible_names(expected_version))
    /\ LET name == possible_names(expected_version)[next_name]
           c == get_config_from_interpreter(name)
       IN  /\ spawned' = Append(spawned, Spawn(name, IdentityScript))
           /\ CASE c.tag = "Panic" -> Return(c) /\ UNCHANGED next_name
                [] c.tag = "Ok" /\ matching_version(expected_version, c.version) ->
                       Return(OkFound(c)) /\ UNCHANGED next_name
                [] OTHER ->
                       /\ next_name' = next_name + 1
                       /\ UNCHANGED <<pc, found, failure>>
    /\ UNCHANGED <<host, expected_version, caller, link_mode, stdout, config_map>>

\* the loop is over and nothing was returned
NotFound ==
    /\ pc = "find"
    /\ ~var_os_is_some(K_PYTHON_SYS_EXECUTABLE)
    /\ next_name > Len(possible_names(expected_version))
    /\ Return([tag |-> "Err",
               msg |-> "No python interpreter found of version " \o Display(expected_version)])
    /\ UNCHANGED <<host, expected_version, spawned, caller, next_name, link_mode,
                   stdout, config_map>>

-----------------------------------------------------------------------------
(* Printed lines.  println!("<key>=<value>") is the record <<key, value>>; *)
(* the value of cargo:python_flags is kept as the sequence of pieces it    *)
(* was concatenated from, so that its entries can be read back.            *)

Line(key, value) == [key |-> key, value |-> value]

CFG_KEY == "py_sys_config"

-----------------------------------------------------------------------------
(* configure_from_path                                                     *)

Found == found["configure_from_path"]

link_modes_conflict_never(default, unresolved_static) == FALSE

\* the test of line 346
link_modes_conflict(default, unresolved_static) == default /\ unresolved_static

\* lines 336-354: the four lines, the feature variables, the exclusion
CheckLinkMode ==
    /\ pc = "configure"
    /\ IF Len(Found.lines) < 4
       THEN /\ Abort("Panic", "index out of bounds: the len is "
                                  \o ToString(Len(Found.lines)))
            /\ UNCHANGED link_mode
       ELSE LET is_extension_module == var_os_is_some(K_CARGO_FEATURE_EXTENSION_MODULE)
                link_mode_default == var_os_is_some(K_CARGO_FEATURE_LINK_MODE_DEFAULT)
                link_mode_unresolved_static ==
                    var_os_is_some(K_CARGO_FEATURE_LINK_MODE_UNRESOLVED_STATIC)
            IN  IF link_modes_conflict(link_mode_default, link_mode_unresolved_static)
                THEN /\ Abort("Err", "link-mode-default and link-mode-unresolved-static are mutually exclusive")
                     /\ UNCHANGED link_mode
                ELSE /\ link_mode' =
                            [is_extension_module |-> is_extension_module,
                             default |-> link_mode_default
                                 \/ (~link_mode_default /\ ~link_mode_unresolved_static),
                             unresolved_static |-> link_mode_unresolved_static]
                     /\ pc' = "link"
                     /\ UNCHANGED failure
    /\ UNCHANGED <<host, expected_version, spawned, caller, next_name, found, stdout,
                   config_map>>

libpath == Found.lines[1]
enable_shared == Found.lines[2]
ld_version == Found.lines[3]
exec_prefix == Found.lines[4]

get_rustc_link_lib_always_dynamic(version, ld, shared) ==
    Line("cargo:rustc-link-lib", "python" \o ld)

\* the variants for targets other than macos: windows, and the rest
get_rustc_link_lib(version, ld, shared) ==
    IF host.target_os = "windows"
    THEN Line("cargo:rustc-link-lib",
              "pythonXY:python" \o ToString(version.major)
                  \o (IF version.minor = NoMinor THEN "" ELSE ToString(version.minor)))
    ELSE IF shared
    THEN Line("cargo:rustc-link-lib", "python" \o ld)
    ELSE Line("cargo:rustc-link-lib", "static=python" \o ld)

\* lines 362-366
link_search ==
    IF libpath # "None"
    THEN <<Line("cargo:rustc-link-search", "native=" \o libpath)>>
    ELSE IF host.target_os = "windows"
    THEN <<Line("cargo:rustc-link-search", "native=" \o exec_prefix \o "\\libs")>>
    ELSE <<>>

\* whether lines 358-366 run
links_library ==
    link_mode.default /\ (~link_mode.is_extension_module \/ host.target_os = "windows")

\* lines 356-380 where get_rustc_link_lib spawns nothing
PlanLink ==
    /\ pc = "link"
    /\ ~(links_library /\ host.target_os = "macos")
    /\ stdout' = stdout \o
          (IF links_library
           THEN <<get_rustc_link_lib(Found.version, ld_version, enable_shared = "1")>>
                    \o link_search
           ELSE IF ~link_mode.default /\ link_mode.unresolved_static
                   /\ host.target_os = "windows"
           THEN <<Line("cargo:rustc-link-lib", "static-nobundle=pythonXY")>>
           ELSE <<>>)
    /\ pc' = "version_cfg"
    /\ UNCHANGED <<host, expected_version, spawned, caller, next_name, found, link_mode,
                   config_map, failure>>

\* macos: get_rustc_link_lib calls get_macos_linkmodel, which looks for the
\* interpreter once more
StartMacosLinkModel ==
    /\ pc = "link"
    /\ links_library /\ host.target_os = "macos"
    /\ pc' = "find"
    /\ caller' = "get_macos_linkmodel"
    /\ next_name' = 1
    /\ UNCHANGED <<host, expected_version, spawned, found, link_mode, stdout, config_map,
                   failure>>

\* the text of out.trim_end() for a script that prints one line
TrimmedText(out) ==
    IF TrimEnd(out) = <<>> THEN ""
    ELSE IF Len(TrimEnd(out)) = 1 THEN TrimEnd(out)[1]
    ELSE "(several lines)"

\* MacosLinkModel with the search path printed before the link model is asked for
MacosLinkModel_search_first ==
    /\ pc = "linkmodel"
    /\ LET interpreter_path == found["get_macos_linkmodel"].executable
           r == run_python_script(interpreter_path, LinkModelScript)
       IN  /\ spawned' = Append(spawned, Spawn(interpreter_path, LinkModelScript))
           /\ IF r.tag # "Ok"
              THEN Abort(r.tag, r.msg) /\ stdout' = stdout \o link_search
              ELSE LET model == TrimmedText(r.out)
                   IN  CASE model = "static" ->
                              /\ stdout' = stdout \o link_search
                                    \o <<Line("cargo:rustc-link-lib", "static=python" \o ld_version)>>
                              /\ pc' = "version_cfg"
                              /\ UNCHANGED failure
                         [] model \in {"shared", "framework"} ->
                              /\ stdout' = stdout \o link_search
                                    \o <<Line("cargo:rustc-link-lib", "python" \o ld_version)>>
                              /\ pc' = "version_cfg"
                              /\ UNCHANGED failure
                         [] OTHER ->
                              /\ Abort("Err", "unknown linkmodel " \o model)
                              /\ stdout' = stdout \o link_search
    /\ UNCHANGED <<host, expected_version, caller, next_name, found, link_mode, config_map>>

\* macos: the link model script, the match on its answer, lines 358-366
MacosLinkModel ==
    /\ pc = "linkmodel"
    /\ LET interpreter_path == found["get_macos_linkmodel"].executable
           r == run_python_script(interpreter_path, LinkModelScript)
       IN  /\ spawned' = Append(spawned, Spawn(interpreter_path, LinkModelScript))
           /\ IF r.tag # "Ok"
              THEN Abort(r.tag, r.msg) /\ UNCHANGED stdout
              ELSE LET model == TrimmedText(r.out)
                   IN  CASE model = "static" ->
                              /\ stdout' = stdout
                                    \o <<Line("cargo:rustc-link-lib", "static=python" \o ld_version)>>
                                    \o link_search
                              /\ pc' = "version_cfg"
                              /\ UNCHANGED failure
                         [] model \in {"shared", "framework"} ->
                              /\ stdout' = stdout
                                    \o <<Line("cargo:rustc-link-lib", "python" \o ld_version)>>
                                    \o link_search
                              /\ pc' = "version_cfg"
                              /\ UNCHANGED failure
                         [] OTHER ->
                              /\ Abort("Err", "unknown linkmodel " \o model)
                              /\ UNCHANGED stdout
    /\ UNCHANGED <<host, expected_version, caller, next_name, found, link_mode, config_map>>

\* minor + 1 in u8, when the overflow is not checked
range_end(minor) == (minor + 1) % U8

\* for i in 4..end
Py_3_lines(end) ==
    [k \in 1..(IF end > 4 THEN end - 4 ELSE 0) |->
        Line("cargo:rustc-cfg", "Py_3_" \o ToString(k + 3))]

\* lines 382-397
EmitVersionCfg ==
    /\ pc = "version_cfg"
    /\ LET v == Found.version
           limited == IF v.major = 3 /\ var_os_is_some(K_CARGO_FEATURE_PEP_384)
                      THEN <<Line("cargo:rustc-cfg", "Py_LIMITED_API")>> ELSE <<>>
       IN  IF v.major = 3 /\ v.minor # NoMinor
              /\ v.minor + 1 >= U8 /\ host.overflow_checks
           THEN /\ stdout' = stdout \o limited
                /\ Abort("Panic", "attempt to add with overflow")
           ELSE /\ stdout' = stdout \o limited
                      \o (IF v.major = 3 /\ v.minor # NoMinor
                          THEN Py_3_lines(range_end(v.minor)) ELSE <<>>)
                /\ pc' = "config_vars"
                /\ UNCHANGED failure
    /\ UNCHANGED <<host, expected_version, spawned, caller, next_name, found, link_mode,
                   config_map>>

-----------------------------------------------------------------------------
(* The interpreter's compile-time flags.                                   *)

SYSCONFIG_FLAGS ==
    <<"Py_USING_UNICODE", "Py_UNICODE_WIDE", "WITH_THREAD", "Py_DEBUG", "Py_REF_DEBUG",
      "Py_TRACE_REFS", "COUNT_ALLOCS">>

SYSCONFIG_VALUES == <<"Py_UNICODE_SIZE">>

\* SYSCONFIG_FLAGS.iter().chain(SYSCONFIG_VALUES.iter())
AllVars == SYSCONFIG_FLAGS \o SYSCONFIG_VALUES

is_value(key) == \E i \in 1..Len(SYSCONFIG_VALUES) : SYSCONFIG_VALUES[i] = key

\* HashMap::insert
insert(map, k, v) == [x \in DOMAIN map \cup {k} |-> IF x = k THEN v ELSE map[x]]

\* the fold of lines 109-117 over the first n pairs of the zip
RECURSIVE fold_vars(_, _)
fold_vars(split_stdout, n) ==
    IF n = 0 THEN << >>
    ELSE LET memo == fold_vars(split_stdout, n - 1)
             k == AllVars[n]
             v == split_stdout[n]
         IN  IF ~(v = "None" /\ is_value(k)) THEN insert(memo, k, v) ELSE memo

\* the table of the windows variant
windows_config_vars ==
    insert(insert(insert(insert(<< >>, "Py_USING_UNICODE", "1"), "Py_UNICODE_WIDE", "0"),
                  "WITH_THREAD", "1"), "Py_UNICODE_SIZE", "2")

\* both variants of get_config_vars; the windows one runs nothing
get_config_vars(python_path) ==
    IF host.target_os = "windows" THEN [tag |-> "Ok", map |-> windows_config_vars]
    ELSE LET r == run_command(python_path, SysconfigScript)
         IN  IF r.tag # "Ok" THEN r
             ELSE LET split_stdout == TrimEndSplit(r.out)
                  IN  IF Len(split_stdout) # Len(SYSCONFIG_VALUES) + Len(SYSCONFIG_FLAGS)
                      THEN [tag |-> "Err",
                            msg |-> "python stdout len didn't return expected number of lines:\n"
                                        \o ToString(Len(split_stdout))]
                      ELSE [tag |-> "Ok", map |-> fold_vars(split_stdout, Len(AllVars))]

\* is_not_none_or_zero(config_map.get(key))
is_not_none_or_zero(map, key) == key \in DOMAIN map /\ map[key] # "0"

imply_flags_trace_refs_first(map) ==
    LET m1 == IF is_not_none_or_zero(map, "Py_TRACE_REFS")
              THEN insert(map, "Py_REF_DEBUG", "1") ELSE map
    IN  IF is_not_none_or_zero(m1, "Py_DEBUG")
        THEN insert(m1, "Py_TRACE_REFS", "1") ELSE m1

\* lines 441-446
imply_flags(map) ==
    LET m1 == IF is_not_none_or_zero(map, "Py_DEBUG")
              THEN insert(map, "Py_TRACE_REFS", "1") ELSE map
    IN  IF is_not_none_or_zero(m1, "Py_TRACE_REFS")
        THEN insert(m1, "Py_REF_DEBUG", "1") ELSE m1

cfg_line_for_var_nonzero_only(key, val) ==
    IF val # "0"
    THEN [tag |-> "Some",
          line |-> Line("cargo:rustc-cfg",
                        CFG_KEY \o "=\"" \o key \o (IF is_value(key) THEN "_" \o val \o "\"\n" ELSE "\""))]
    ELSE [tag |-> "None"]

cfg_line_for_var(key, val) ==
    IF is_value(key)
    THEN [tag |-> "Some",
          line |-> Line("cargo:rustc-cfg", CFG_KEY \o "=\"" \o key \o "_" \o val \o "\"\n")]
    ELSE IF val # "0"
    THEN [tag |-> "Some", line |-> Line("cargo:rustc-cfg", CFG_KEY \o "=\"" \o key \o "\"")]
    ELSE [tag |-> "None"]

\* The order in which the HashMap yields its keys is not specified; it is
\* the same for the two loops of main, which do not change the map between
\* them.  The orders tried are the rotations of the insertion order.
IterOrder(map) ==
    LET n == Len(AllVars)
        rotated == [i \in 1..n |-> AllVars[((i - 1 + host.rot) % n) + 1]]
    IN  SelectSeq(rotated, LAMBDA k : k \in DOMAIN map)

\* the loop of lines 447-451 over the keys in order
RECURSIVE cfg_lines(_, _)
cfg_lines(map, order) ==
    IF order = <<>> THEN <<>>
    ELSE LET c == cfg_line_for_var(Head(order), map[Head(order)])
         IN  (IF c.tag = "Some" THEN <<c.line>> ELSE <<>>) \o cfg_lines(map, Tail(order))

flag_entry_all_flags(key, val) ==
    IF is_value(key) THEN <<"VAL_", key, "=", val, ",">>
    ELSE <<"FLAG_", key, "=", val, ",">>

\* what one turn of the fold of lines 466-474 adds to memo
flag_entry(key, val) ==
    IF is_value(key) THEN <<"VAL_", key, "=", val, ",">>
    ELSE IF val # "0" THEN <<"FLAG_", key, "=", val, ",">>
    ELSE <<>>

RECURSIVE fold_flags(_, _)
fold_flags(map, order) ==
    IF order = <<>> THEN <<>>
    ELSE fold_flags(map, SubSeq(order, 1, Len(order) - 1))
            \o flag_entry(order[Len(order)], map[order[Len(order)]])

\* lines 475-482: the string without its last character, the comma
python_flags(map) ==
    LET flags == fold_flags(map, IterOrder(map))
    IN  IF flags # <<>> THEN SubSeq(flags, 1, Len(flags) - 1) ELSE <<>>

-----------------------------------------------------------------------------
(* main                                                                    *)

\* line 438
VersionFromEnv ==
    /\ pc = "main"
    /\ LET r == version_from_env
       IN  IF r.tag = "Ok"
           THEN /\ expected_version' = r.version
                /\ pc' = "find"
                /\ UNCHANGED failure
           ELSE /\ Abort(r.tag, r.msg)
                /\ UNCHANGED expected_version
    /\ UNCHANGED <<host, spawned, caller, next_name, found, link_mode, stdout, config_map>>

\* line 440
GetConfigVars ==
    /\ pc = "config_vars"
    /\ LET r == get_config_vars(Found.executable)
       IN  /\ spawned' = IF host.target_os = "windows" THEN spawned
                         ELSE Append(spawned, Spawn(Found.executable, SysconfigScript))
           /\ IF r.tag = "Ok"
              THEN /\ config_map' = r.map
                   /\ pc' = "imply"
                   /\ UNCHANGED failure
              ELSE /\ Abort(r.tag, r.msg)
                   /\ UNCHANGED config_map
    /\ UNCHANGED <<host, expected_version, caller, next_name, found, link_mode, stdout>>

\* lines 441-446
ImplyFlags ==
    /\ pc = "imply"
    /\ config_map' = imply_flags(config_map)
    /\ pc' = "cfg_lines"
    /\ UNCHANGED <<host, expected_version, spawned, caller, next_name, found, link_mode,
                   stdout, failure>>

\* lines 447-451
EmitCfgLines ==
    /\ pc = "cfg_lines"
    /\ stdout' = stdout \o cfg_lines(config_map, IterOrder(config_map))
    /\ pc' = "flags"
    /\ UNCHANGED <<host, expected_version, spawned, caller, next_name, found, link_mode,
                   config_map, failure>>

\* lines 466-486
EmitFlags ==
    /\ pc = "flags"
    /\ stdout' = stdout \o <<Line("cargo:python_flags", python_flags(config_map)),
                             Line("cargo:python_interpreter", Found.executable)>>
    /\ pc' = "done"
    /\ UNCHANGED <<host, expected_version, spawned, caller, next_name, found, link_mode,
                   config_map, failure>>

-----------------------------------------------------------------------------
(* The hosts the script is run on.                                         *)

Proc(status, out) == [status |-> status, out |-> out]

Interp(identity, linkmodel, sysconfig) ==
    [identity |-> identity, linkmodel |-> linkmodel, sysconfig |-> sysconfig]

\* the path sys.executable reports for a program found under a name
Exe(name) == "/usr/bin/" \o name

OverridePath == "/opt/python/bin/python"

\* what the identity script prints, cut or padded to n lines
IdentityOut(exe, v, libdir, shared, ld, prefix, n) ==
    SubSeq(<<exe, VersionText(v[1], v[2]), libdir, shared, ld, prefix>>
               \o [i \in 1..(IF n > 6 THEN n - 6 ELSE 0) |-> "extra"],
           1, n)

\* the link-version suffix of a runtime
Suffix(v) == ToString(v[1]) \o "." \o ToString(v[2])

PlainIdentity(exe, v) == Proc("ok", IdentityOut(exe, v, "/usr/lib", "1", Suffix(v), "/usr", 6))

PlainSysconfig == Proc("ok", <<"0", "0", "1", "0", "0", "0", "0", "None">>)

PlainLinkModel == Proc("ok", <<"shared">>)

\* an interpreter that answers every script as a regular installation does
Plain(exe, v) == Interp(PlainIdentity(exe, v), PlainLinkModel, PlainSysconfig)

\* a program is reachable under its name and under the path it reports
Installed(name, exe, interp) == (name :> interp) @@ (exe :> interp)

NoPrograms == [n \in {} |-> Plain("", <<3, 8>>)]

\* the environment: the feature variables set, PATH, and the override if any
Env(keys, override) ==
    [k \in keys \cup {K_PATH} \cup (IF override = "" THEN {} ELSE {K_PYTHON_SYS_EXECUTABLE}) |->
        IF k = K_PYTHON_SYS_EXECUTABLE THEN override
        ELSE IF k = K_PATH THEN "/usr/bin" ELSE "1"]

Host(env, target_os, overflow_checks, interp, rot) ==
    [env |-> env, target_os |-> target_os, overflow_checks |-> overflow_checks,
     interp |-> interp, rot |-> rot]

TargetOS == {"linux", "macos", "windows"}

\* the ways one program can answer the identity script when probed
ProbeAnswers(exe) ==
    {Proc("failed", <<>>), Proc("not_utf8", <<>>),
     Proc("ok", <<>>),
     Proc("ok", <<exe, "Python 3.8.1">>),
     PlainIdentity(exe, <<3, 8>>), PlainIdentity(exe, <<3, 9>>),
     PlainIdentity(exe, <<2, 7>>), PlainIdentity(exe, <<3, 256>>)}

\* the programs a name can stand for: none, or one with some answer
Programs(name) ==
    {NoPrograms} \cup
    {Installed(name, Exe(name), Interp(a, PlainLinkModel, PlainSysconfig)) :
        a \in ProbeAnswers(Exe(name))}

\* hosts that differ in what the candidate names answer
ProbeHosts ==
    {Host(Env({FeatureKey(3, m)} \cup lm, ""), os, TRUE, p1 @@ p2 @@ p3, 0) :
        m \in {NoMinor, 8},
        lm \in {{}, {K_CARGO_FEATURE_LINK_MODE_DEFAULT,
                     K_CARGO_FEATURE_LINK_MODE_UNRESOLVED_STATIC}},
        os \in {"linux", "macos"},
        p1 \in Programs("python"), p2 \in Programs("python3"),
        p3 \in Programs("python3.8")}

\* hosts with PYTHON_SYS_EXECUTABLE set
OverrideHosts ==
    {Host(Env({FeatureKey(3, m)} \cup lm, OverridePath), os, TRUE,
          Installed("python", Exe("python"), Plain(Exe("python"), <<3, 8>>))
              @@ Installed("python3", Exe("python3"), Plain(Exe("python3"), <<3, 8>>))
              @@ Installed("python3.8", Exe("python3.8"), Plain(Exe("python3.8"), <<3, 8>>))
              @@ po,
          0) :
        m \in {NoMinor, 8},
        lm \in {{}, {K_CARGO_FEATURE_LINK_MODE_DEFAULT,
                     K_CARGO_FEATURE_LINK_MODE_UNRESOLVED_STATIC}},
        os \in TargetOS,
        po \in {NoPrograms} \cup
               {Installed(OverridePath, OverridePath,
                          Interp(a, PlainLinkModel, PlainSysconfig)) :
                    a \in ProbeAnswers(OverridePath)}}

\* hosts whose interpreter prints more or fewer lines than the script asks for
LineCountHosts ==
    {Host(Env({FeatureKey(3, NoMinor)}, override), os, TRUE,
          Installed(IF override = "" THEN "python" ELSE override,
                    IF override = "" THEN Exe("python") ELSE override,
                    Interp(Proc("ok", IdentityOut(IF override = "" THEN Exe("python") ELSE override,
                                                   v, "/usr/lib", "1", Suffix(v), "/usr", n)),
                           PlainLinkModel, PlainSysconfig)),
          0) :
        override \in {"", OverridePath}, os \in TargetOS,
        v \in {<<3, 8>>, <<2, 7>>}, n \in 0..MaxLines}

LinkModeKeys ==
    SUBSET {K_CARGO_FEATURE_LINK_MODE_DEFAULT, K_CARGO_FEATURE_LINK_MODE_UNRESOLVED_STATIC,
            K_CARGO_FEATURE_EXTENSION_MODULE, K_CARGO_FEATURE_PEP_384}

LinkModelAnswers ==
    {Proc("ok", <<"static">>), Proc("ok", <<"shared">>), Proc("ok", <<"framework">>),
     Proc("ok", <<"other">>), Proc("ok", <<>>), Proc("failed", <<>>),
     Proc("not_utf8", <<>>)}

\* hosts that differ in the link request and in the facts the link plan reads
LinkHosts ==
    {Host(Env({FeatureKey(3, NoMinor)} \cup keys, ""), os, TRUE,
          Installed("python", Exe("python"),
                    Interp(Proc("ok", IdentityOut(Exe("python"), <<3, 8>>, libdir, shared,
                                                   ld, "/usr", 6)),
                           lma, PlainSysconfig)),
          0) :
        keys \in LinkModeKeys, os \in TargetOS,
        libdir \in {"None", "/usr/lib"}, shared \in {"1", "0", "None"},
        ld \in {"3.8", "3.8d"},
        lma \in LinkModelAnswers}

\* hosts that differ in the version the interpreter reports
VersionHosts ==
    {Host(Env({FeatureKey(M, NoMinor)} \cup pep, ""), "linux", oc,
          Installed("python", Exe("python"), Plain(Exe("python"), v)), 0) :
        M \in {2, 3}, pep \in SUBSET {K_CARGO_FEATURE_PEP_384}, oc \in BOOLEAN,
        v \in ReportedVersions}

\* hosts that differ in the version features of the environment
FeatureHosts ==
    {Host(Env(keys, ""), "linux", TRUE,
          Installed("python", Exe("python"), Plain(Exe("python"), <<3, 5>>)), 0) :
        keys \in SUBSET {FeatureKey(3, NoMinor), FeatureKey(3, 5), FeatureKey(3, 10),
                         FeatureKey(2, 7), FeatureKey(2, NoMinor), FeatureKey(3, 256),
                         K_CARGO_FEATURE_PEP_384}}

FlagTexts == {"0", "1"}

\* what the sysconfig script can print: a text per variable, in order
SysconfigOuts ==
    {<<a, "0", c, d, e, f, "0", w>> :
        a \in {"0", "None"}, c \in FlagTexts, d \in FlagTexts \cup {"2"}, e \in FlagTexts,
        f \in FlagTexts \cup {"None"}, w \in {"None", "0", "2", "4"}}

SysconfigAnswers ==
    {Proc("ok", o) : o \in SysconfigOuts}
    \cup {Proc("failed", <<>>), Proc("not_utf8", <<>>), Proc("ok", <<>>),
          Proc("ok", <<"0", "0", "1", "0", "0", "0", "0">>),
          Proc("ok", <<"0", "0", "1", "0", "0", "0", "0", "None", "">>),
          Proc("ok", <<"0", "0", "1", "0", "0", "0", "0", "None", "1">>)}

\* hosts that differ in the flags of the interpreter and in the map's order
FlagHosts ==
    {Host(Env({FeatureKey(3, NoMinor)}, ""), os, TRUE,
          Installed("python", Exe("python"),
                    Interp(PlainIdentity(Exe("python"), <<3, 8>>), PlainLinkModel, sa)),
          rot) :
        os \in {"linux", "windows"}, sa \in SysconfigAnswers, rot \in 0..MaxRot}

Hosts ==
    ProbeHosts \cup OverrideHosts \cup LineCountHosts \cup LinkHosts \cup VersionHosts
        \cup FeatureHosts \cup FlagHosts

-----------------------------------------------------------------------------
(* The specification.                                                      *)

Callers == {"configure_from_path", "get_macos_linkmodel"}

NoFailure == [kind |-> "None", msg |-> "", at |-> ""]

Init ==
    /\ host \in Hosts
    /\ pc = "main"
    /\ expected_version = PythonVersion(0, NoMinor)
    /\ spawned = <<>>
    /\ caller = "configure_from_path"
    /\ next_name = 1
    /\ found = [c \in Callers |-> NotCalled]
    /\ link_mode = [is_extension_module |-> FALSE, default |-> FALSE,
                    unresolved_static |-> FALSE]
    /\ stdout = <<>>
    /\ config_map = << >>
    /\ failure = NoFailure

Next ==
    \/ VersionFromEnv
    \/ ProbeOverride
    \/ ProbeCandidate
    \/ NotFound
    \/ CheckLinkMode
    \/ PlanLink
    \/ StartMacosLinkModel
    \/ MacosLinkModel
    \/ EmitVersionCfg
    \/ GetConfigVars
    \/ ImplyFlags
    \/ EmitCfgLines
    \/ EmitFlags

Spec == Init /\ [][Next]_vars

-----------------------------------------------------------------------------
(* What the claims read off a state.                                       *)

\* the get_config_from_interpreter calls so far: the interpreters probed
Probes == SelectSeq(spawned, LAMBDA sp : sp.script = IdentityScript)

Printed == {stdout[i] : i \in 1..Len(stdout)}

BothLinkModes ==
    /\ K_CARGO_FEATURE_LINK_MODE_DEFAULT \in DOMAIN host.env
    /\ K_CARGO_FEATURE_LINK_MODE_UNRESOLVED_STATIC \in DOMAIN host.env

ConflictMsg == "link-mode-default and link-mode-unresolved-static are mutually exclusive"

-----------------------------------------------------------------------------
(* C1 *)

\* C1, as stated: when both link modes are requested, the conflict error is
\* raised with no interpreter probed and no directive printed.
C1_ConflictBeforeAnyProbe ==
    (BothLinkModes /\ failure.msg = ConflictMsg) => (Len(Probes) = 0 /\ stdout = <<>>)

\* C1, amended: the conflict error is raised only when both link modes are
\* requested, after the interpreter has been located (at least one probe
\* has run and the search has returned an interpreter) and before any
\* directive is printed.  A run with both link modes requested never gets
\* past that check and never prints anything; when the interpreter was
\* located and its four facts read, the error it ends with is the conflict.
C1_ConflictAfterLocationBeforeOutput ==
    /\ failure.msg = ConflictMsg =>
          /\ BothLinkModes
          /\ failure.kind = "Err"
          /\ Len(Probes) >= 1
          /\ Found.tag = "Ok"
          /\ stdout = <<>>
    /\ BothLinkModes =>
          /\ stdout = <<>>
          /\ pc \in {"main", "find", "configure", "failed"}
          /\ (pc = "failed" /\ Found.tag = "Ok" /\ Len(Found.lines) >= 4)
                => failure.msg = ConflictMsg

\* the conflict is reported after two candidates were skipped and a third accepted
C1_Witness ==
    /\ BothLinkModes
    /\ failure.msg = ConflictMsg
    /\ Len(Probes) = 3
    /\ stdout = <<>>

-----------------------------------------------------------------------------
(* C2 *)

\* C2, as stated: whichever of the version request, the interpreter search,
\* the identity extraction, the link plan and the flag-map extraction
\* fails, nothing has been printed when it fails.
C2_NothingPrintedAtFailure ==
    (pc = "failed"
        /\ failure.at \in {"main", "find", "configure", "link", "linkmodel", "config_vars"})
    => stdout = <<>>

\* C2, amended: nothing has been printed when the version request, the
\* interpreter search, the identity extraction, the link-mode check or the
\* link plan fails; the flag-map extraction runs after configure_from_path
\* has printed, so it can fail with the link and version-gate lines already
\* out; cargo:python_flags and cargo:python_interpreter are printed only by
\* runs that resolve completely.
C2_EarlyFailuresPrintNothing ==
    /\ (pc = "failed" /\ failure.at \in {"main", "find", "configure", "link", "linkmodel"})
          => stdout = <<>>
    /\ (pc = "failed" /\ failure.at = "config_vars")
          => \A l \in Printed : l.key \in {"cargo:rustc-link-lib", "cargo:rustc-link-search",
                                            "cargo:rustc-cfg"}
    /\ (\E l \in Printed : l.key \in {"cargo:python_flags", "cargo:python_interpreter"})
          => (pc = "done" /\ failure.kind = "None")

\* the link plan fails on an answer it does not know, with a library
\* directory that would have been printed
C2_Witness ==
    /\ pc = "failed"
    /\ failure.at = "linkmodel"
    /\ failure.kind = "Err"
    /\ Len(spawned) = 3
    /\ libpath # "None"
    /\ stdout = <<>>

-----------------------------------------------------------------------------
(* C3 and C4: what a program answers to a probe, read from the host.       *)

IdentityAnswer(name) ==
    IF name \in DOMAIN host.interp THEN host.interp[name].identity ELSE Proc("failed", <<>>)

\* the probe of name succeeds and reports version r
Reports(name, r) ==
    /\ IdentityAnswer(name).status = "ok"
    /\ Len(IdentityAnswer(name).out) >= 2
    /\ IdentityAnswer(name).out[2] = VersionText(r[1], r[2])

InU8(r) == r[1] >= 0 /\ r[1] <= 255 /\ r[2] >= 0 /\ r[2] <= 255

\* the probe succeeds and the version it reports matches expected
Accepted(name, expected) ==
    \E r \in ReportedVersions :
        /\ InU8(r)
        /\ Reports(name, r)
        /\ r[1] = expected.major
        /\ (expected.minor = NoMinor \/ r[2] = expected.minor)

\* the probe neither fails nor succeeds: the process dies in it
Crashes(name) ==
    \/ IdentityAnswer(name).status = "not_utf8"
    \/ IdentityAnswer(name).status = "ok" /\ Len(IdentityAnswer(name).out) = 0
    \/ \E r \in ReportedVersions : ~InU8(r) /\ Reports(name, r)

\* the probe fails with an error, or succeeds with a version that does not match
Rejected(name, expected) == ~Accepted(name, expected) /\ ~Crashes(name)

ProbedNames == [i \in 1..Len(Probes) |-> Probes[i].interpreter]

CandidateNames(expected) ==
    IF expected.minor = NoMinor
    THEN <<"python", "python" \o ToString(expected.major)>>
    ELSE <<"python", "python" \o ToString(expected.major),
           "python" \o ToString(expected.major) \o "." \o ToString(expected.minor)>>

NotFoundMsg(expected) ==
    "No python interpreter found of version " \o ToString(expected.major) \o "."
        \o (IF expected.minor = NoMinor THEN "*" ELSE ToString(expected.minor))

\* the search of configure_from_path has started and is the only one so far
InFirstSearch ==
    /\ pc # "main"
    /\ failure.at # "main"
    /\ caller = "configure_from_path"

SearchOver == InFirstSearch /\ pc # "find"

C4_OverrideProbedAlone ==
    (K_PYTHON_SYS_EXECUTABLE \in DOMAIN host.env) =>
        LET path == host.env[K_PYTHON_SYS_EXECUTABLE]
        IN  /\ \A i \in 1..Len(Probes) : Probes[i].interpreter = path
            /\ InFirstSearch => Len(Probes) <= 1
            /\ SearchOver =>
                  /\ Len(Probes) >= 1
                  /\ IF Accepted(path, expected_version)
                     THEN /\ Found.tag = "Ok"
                          /\ Found.executable = IdentityAnswer(path).out[1]
                          /\ Reports(path, <<Found.version.major, Found.version.minor>>)
                     ELSE /\ pc = "failed"
                          /\ failure.at = "find"
                          /\ Found.tag = "None"
                          /\ Rejected(path, expected_version) => failure.kind = "Err"

\* the override reports 3.9 where 3.8 is expected, and working "python",
\* "python3" and "python3.8" are left alone
C4_Witness ==
    /\ K_PYTHON_SYS_EXECUTABLE \in DOMAIN host.env
    /\ expected_version = PythonVersion(3, 8)
    /\ Reports(host.env[K_PYTHON_SYS_EXECUTABLE], <<3, 9>>)
    /\ Accepted("python3.8", expected_version)
    /\ pc = "failed"
    /\ failure.kind = "Err"
    /\ ProbedNames = <<host.env[K_PYTHON_SYS_EXECUTABLE]>>

-----------------------------------------------------------------------------
(* C5 *)

MinorFeatures == {FeatureKey(M, m) : M \in 2..3, m \in 0..10}

BareFeatures == {FeatureKey(M, NoMinor) : M \in 2..3}

\* C5, as stated: when the environment holds at least one python-<major>-<minor>
\* feature and at least one python-<major> feature, the version returned by
\* version_from_env has a minor.
C5_MostSpecificFeatureWins ==
    (/\ pc # "main"
     /\ failure.at # "main"
     /\ MinorFeatures \cap DOMAIN host.env # {}
     /\ BareFeatures \cap DOMAIN host.env # {})
    => expected_version.minor # NoMinor

-----------------------------------------------------------------------------
(* C6 *)

LinkLibPrinted == {l \in Printed : l.key = "cargo:rustc-link-lib"}

\* the directive C6 expects for the facts of the interpreter found
ExpectedLinkLib ==
    IF Found.lines[2] = "1"
    THEN [key |-> "cargo:rustc-link-lib", value |-> "python" \o Found.lines[3]]
    ELSE [key |-> "cargo:rustc-link-lib", value |-> "static=python" \o Found.lines[3]]

\* a run on a target that is neither macos nor windows, in the default
\* link mode (asked for, or implied by asking for none), that resolved
DefaultPlatformDefaultModeDone ==
    /\ host.target_os = "linux"
    /\ K_CARGO_FEATURE_LINK_MODE_UNRESOLVED_STATIC \notin DOMAIN host.env
    /\ pc = "done"

\* C6, as stated: such a run has printed cargo:rustc-link-lib=python<suffix>
\* when the shared indicator is "1" and cargo:rustc-link-lib=static=python<suffix>
\* otherwise.
C6_LinkDirectiveAlways ==
    DefaultPlatformDefaultModeDone => ExpectedLinkLib \in Printed

\* C6, amended: such a run that is not an extension-module build
\* (CARGO_FEATURE_EXTENSION_MODULE unset) prints that directive first, and it
\* is its only link directive; an extension-module build prints no link
\* directive and no search path.
C6_LinkDirectiveUnlessExtensionModule ==
    DefaultPlatformDefaultModeDone =>
        IF K_CARGO_FEATURE_EXTENSION_MODULE \in DOMAIN host.env
        THEN \A l \in Printed :
                 l.key \notin {"cargo:rustc-link-lib", "cargo:rustc-link-search"}
        ELSE /\ stdout[1] = ExpectedLinkLib
             /\ LinkLibPrinted = {ExpectedLinkLib}
             /\ Cardinality({i \in 1..Len(stdout) : stdout[i].key = "cargo:rustc-link-lib"}) = 1

\* a static link of python3.8d
C6_Witness ==
    /\ DefaultPlatformDefaultModeDone
    /\ K_CARGO_FEATURE_EXTENSION_MODULE \notin DOMAIN host.env
    /\ Found.lines[2] = "0"
    /\ stdout[1] = [key |-> "cargo:rustc-link-lib", value |-> "static=python3.8d"]

-----------------------------------------------------------------------------
(* C7 and C8 *)

ValueKinds == {"Py_UNICODE_SIZE"}

FlagKinds ==
    {"Py_USING_UNICODE", "Py_UNICODE_WIDE", "WITH_THREAD", "Py_DEBUG", "Py_REF_DEBUG",
     "Py_TRACE_REFS", "COUNT_ALLOCS"}

\* the values of the cargo:rustc-cfg lines configure_from_path prints
VersionGateValues == {"Py_LIMITED_API"} \cup {"Py_3_" \o ToString(i) : i \in 0..255}

\* the positions of the conditional-compilation lines of the config map
SysconfigPositions ==
    {i \in 1..Len(stdout) :
        stdout[i].key = "cargo:rustc-cfg" /\ stdout[i].value \notin VersionGateValues}

SysconfigPrinted == {stdout[i] : i \in SysconfigPositions}

\* the line C7 describes for a key and its value
CfgLineOf(key, val) ==
    IF key \in ValueKinds
    THEN [key |-> "cargo:rustc-cfg",
          value |-> "py_sys_config=\"" \o key \o "_" \o val \o "\"\n"]
    ELSE [key |-> "cargo:rustc-cfg", value |-> "py_sys_config=\"" \o key \o "\""]

\* C7: once the loop over the derived config map has run, a value-kind key
\* has its line <key>_<value>, whatever the value, "0" included; a flag-kind
\* key has its line exactly when its value is not "0"; and no other
\* py_sys_config line was printed.
C7_CfgLinePerKind ==
    pc \in {"flags", "done"} =>
        /\ \A key \in DOMAIN config_map :
              /\ key \in ValueKinds => CfgLineOf(key, config_map[key]) \in Printed
              /\ key \in FlagKinds =>
                    (CfgLineOf(key, config_map[key]) \in Printed <=> config_map[key] # "0")
        /\ Cardinality(SysconfigPositions) =
              Cardinality({key \in DOMAIN config_map :
                              key \in ValueKinds \/ config_map[key] # "0"})
        /\ DOMAIN config_map \subseteq ValueKinds \cup FlagKinds

\* the value "0" of a value-kind key is printed, the "0" of a flag is not
C7_Witness ==
    /\ pc = "done"
    /\ "Py_UNICODE_SIZE" \in DOMAIN config_map
    /\ config_map["Py_UNICODE_SIZE"] = "0"
    /\ config_map["WITH_THREAD"] = "0"
    /\ config_map["Py_DEBUG"] = "1"
    /\ CfgLineOf("Py_UNICODE_SIZE", "0") \in Printed
    /\ CfgLineOf("Py_DEBUG", "1") \in Printed

\* the entries of a comma-joined string, given as its pieces
RECURSIVE SplitAtCommas(_)
SplitAtCommas(toks) ==
    IF toks = <<>> THEN <<>>
    ELSE IF \E i \in 1..Len(toks) : toks[i] = ","
    THEN LET i == CHOOSE j \in 1..Len(toks) :
                      toks[j] = "," /\ \A k \in 1..(j - 1) : toks[k] # ","
         IN  <<SubSeq(toks, 1, i - 1)>> \o
                 (IF i = Len(toks) THEN << <<>> >> ELSE SplitAtCommas(SubSeq(toks, i + 1, Len(toks))))
    ELSE <<toks>>

PythonFlagsValue ==
    (CHOOSE l \in Printed : l.key = "cargo:python_flags").value

FlagEntries == SplitAtCommas(PythonFlagsValue)

\* the values a variable is given in the hosts of the model
ValueTexts == {"0", "1", "2", "4", "None"}

\* C8: in a run that resolved, the entries of cargo:python_flags are
\* <prefix><key>=<value>, one per key; a key has an entry exactly when a
\* py_sys_config line was printed for it; the prefix is VAL_ exactly for the
\* value-kind key and FLAG_ exactly for the flag-kind keys; the value is the
\* key's value in the derived map; and the py_sys_config lines printed are
\* those rebuilt from the entries alone.
C8_FlagsStringMatchesCfgLines ==
    pc = "done" =>
        LET E == {FlagEntries[i] : i \in 1..Len(FlagEntries)}
        IN  /\ \A e \in E :
                  /\ Len(e) = 4
                  /\ e[3] = "="
                  /\ e[2] \in DOMAIN config_map
                  /\ e[4] = config_map[e[2]]
                  /\ e[1] = "VAL_" <=> e[2] \in ValueKinds
                  /\ e[1] = "FLAG_" <=> e[2] \in FlagKinds
            /\ \A key \in ValueKinds \cup FlagKinds :
                  (\E e \in E : e[2] = key)
                      <=> (\E v \in ValueTexts : CfgLineOf(key, v) \in SysconfigPrinted)
            /\ Len(FlagEntries) = Cardinality({e[2] : e \in E})
            /\ {CfgLineOf(e[2], e[4]) : e \in E} = SysconfigPrinted

\* a VAL_ entry, a FLAG_ entry, and a flag left out because it is "0"
C8_Witness ==
    /\ pc = "done"
    /\ host.rot = 1
    /\ \E i \in 1..Len(FlagEntries) : FlagEntries[i] = <<"VAL_", "Py_UNICODE_SIZE", "=", "0">>
    /\ \E i \in 1..Len(FlagEntries) : FlagEntries[i] = <<"FLAG_", "Py_DEBUG", "=", "2">>
    /\ config_map["WITH_THREAD"] = "0"
    /\ \A i \in 1..Len(FlagEntries) : FlagEntries[i][2] # "WITH_THREAD"

-----------------------------------------------------------------------------
(* C9 *)

Py_3_Printed ==
    {l \in Printed : l.key = "cargo:rustc-cfg"
                        /\ l.value \in {"Py_3_" \o ToString(i) : i \in 0..255}}

\* C9, as stated: for an interpreter 3.m, whatever m in 0..255, the step
\* that prints the version-gated flags prints exactly Py_3_4 .. Py_3_m, and
\* none for an interpreter that is not 3.x.
C9_VersionGateUpToMinor ==
    (/\ Found.tag = "Ok"
     /\ \/ pc \in {"config_vars", "imply", "cfg_lines", "flags", "done"}
        \/ pc = "failed" /\ failure.at \in {"version_cfg", "config_vars"})
    => /\ failure.at # "version_cfg"
       /\ Py_3_Printed =
             IF Found.version.major = 3
             THEN {[key |-> "cargo:rustc-cfg", value |-> "Py_3_" \o ToString(i)] :
                      i \in 4..Found.version.minor}
             ELSE {}

-----------------------------------------------------------------------------
(* C10 *)

\* C10, as stated: an identity script output of other than 6 lines is
\* never taken as a result, and never ends the process in a panic: the
\* extraction returns an error value.
C10_SixLinesOrError ==
    (InFirstSearch /\ Len(ProbedNames) >= 1) =>
        LET a == IdentityAnswer(ProbedNames[Len(ProbedNames)])
        IN  (a.status = "ok" /\ Len(a.out) # 6) =>
                /\ pc \notin {"link", "linkmodel", "version_cfg", "config_vars", "imply",
                              "cfg_lines", "flags", "done"}
                /\ ~(pc = "failed" /\ failure.at \in {"find", "configure"}
                        /\ failure.kind = "Panic")

-----------------------------------------------------------------------------
(* C11 *)

\* the map get_config_vars returned, before the implication rules
ExtractedMap == get_config_vars(Found.executable).map

\* the three flags of the rules, as a map has them ("absent" for no entry)
RuleFlags(map) ==
    [k \in {"Py_DEBUG", "Py_TRACE_REFS", "Py_REF_DEBUG"} |->
        IF k \in DOMAIN map THEN map[k] ELSE "absent"]

\* C11: the two implication rules, applied once in their order to the
\* extracted config map, give the derived map, and applying the pair of
\* rules to the derived map a second time leaves it unchanged.
C11_ImplicationRulesIdempotent ==
    pc \in {"cfg_lines", "flags", "done"} =>
        /\ config_map = imply_flags(ExtractedMap)
        /\ imply_flags(config_map) = config_map

\* both rules acted: a nonzero Py_DEBUG over a "0" Py_TRACE_REFS and a "0"
\* Py_REF_DEBUG set both to "1"
C11_Witness ==
    /\ pc = "cfg_lines"
    /\ RuleFlags(ExtractedMap) =
          [Py_DEBUG |-> "2", Py_TRACE_REFS |-> "0", Py_REF_DEBUG |-> "0"]
    /\ RuleFlags(config_map) =
          [Py_DEBUG |-> "2", Py_TRACE_REFS |-> "1", Py_REF_DEBUG |-> "1"]

====
